---- MODULE Spec2Model ----
(***************************************************************************)
(* Model of derive/src/type_def.rs: the derive generator that turns a type *)
(* declaration (struct, enum or union) into an implementation of           *)
(* HasTypeDef whose body describes the shape of the type.                  *)
(*                                                                         *)
(* Token streams are modelled by their structure: the input is what        *)
(* syn::parse2 makes of it (a DeriveInput, or a parse error), the output   *)
(* is the tree of the emitted items and constructor calls.                 *)
(***************************************************************************)
EXTENDS Integers, Sequences, FiniteSets, TLC

VARIABLES input, output

vars == <<input, output>>

(* ------------------------------ bounds --------------------------------- *)

MaxFields == 2          \* fields of a struct or union
MaxVariants == 2        \* variants of an enum
MaxVariantFields == 1   \* fields of one enum variant
MaxLit == 1             \* largest integer literal used as a discriminant

(* --------------------------- syn's data types -------------------------- *)

Some(x) == [some |-> TRUE, val |-> x]

None == [some |-> FALSE]

TypeIdents == {"Foo", "Bar"}

FieldNames == {"a", "b"}

Types == {"u8", "bool"}

VariantNames == <<"A", "B", "C", "D">>

SeqsUpTo(S, n) == UNION {[1..k -> S] : k \in 0..n}

NamedFieldPool == {[ident |-> Some(n), ty |-> t] : n \in FieldNames, t \in Types}

UnnamedFieldPool == {[ident |-> None, ty |-> t] : t \in Types}

\* syn::Fields: Named { .. }, Unnamed ( .. ) or Unit, with at most n fields
\* taken from the given pools
FieldsOf(named, unnamed, n) ==
    {[kind |-> "Unit"]}
    \cup {[kind |-> "Named", named |-> fs] : fs \in SeqsUpTo(named, n)}
    \cup {[kind |-> "Unnamed", unnamed |-> fs] : fs \in SeqsUpTo(unnamed, n)}

\* the fields an enum variant is declared with
VariantFields ==
    FieldsOf({[ident |-> Some("a"), ty |-> "u8"]}, {[ident |-> None, ty |-> "u8"]},
             MaxVariantFields)

\* the expression after `=` in a variant: an integer literal, a negated
\* literal (Expr::Unary) or a path to a constant (Expr::Path)
Discriminants ==
    {None}
    \cup {Some([expr |-> "Lit", lit |-> "Int", value |-> n]) : n \in 0..MaxLit}
    \cup {Some([expr |-> "Unary", op |-> "-", value |-> 1])}
    \cup {Some([expr |-> "Path", path |-> "K"])}

VariantsAt(i) ==
    {[ident |-> VariantNames[i], fields |-> f, discriminant |-> d] :
        f \in VariantFields, d \in Discriminants}

VariantLists ==
    UNION {{vs \in [1..k -> UNION {VariantsAt(i) : i \in 1..k}] :
                \A i \in 1..k : vs[i].ident = VariantNames[i]} : k \in 0..MaxVariants}

Datas ==
    {[kind |-> "Struct", fields |-> f] : f \in FieldsOf(NamedFieldPool, UnnamedFieldPool, MaxFields)}
    \cup {[kind |-> "Enum", variants |-> vs] : vs \in VariantLists}
    \cup {[kind |-> "Union", fields |-> [kind |-> "Named", named |-> fs]] :
            fs \in SeqsUpTo(NamedFieldPool, MaxFields)}

\* the type parameters of the declaration, each with its declared bounds
GenericsPool == {<<>>, <<[ident |-> "T", bounds |-> <<"Clone">>]>>}

DeriveInputs ==
    {[ident |-> id, generics |-> g, data |-> d] :
        id \in TypeIdents, g \in GenericsPool, d \in Datas}

\* token streams that are not a struct, enum or union declaration
ParseErrors == {"expected one of: struct, enum, union", "unexpected end of input"}

Inputs ==
    {[parses |-> TRUE, ast |-> a] : a \in DeriveInputs}
    \cup {[parses |-> FALSE, err |-> e] : e \in ParseErrors}

(* ------------------------- the emitted fragments ----------------------- *)

\* <#ty as _type_metadata::Metadata>::meta_type()
meta_type(ty) == [call |-> "Metadata::meta_type", of |-> ty]

\* one field of a field list: NamedField::new(stringify!(#i), #meta_type)
\* when the field has an identifier, UnnamedField::new(#meta_type) otherwise
field_def(f) ==
    IF f.ident.some
    THEN [call |-> "NamedField::new", name |-> f.ident.val, meta_type |-> meta_type(f.ty)]
    ELSE [call |-> "UnnamedField::new", meta_type |-> meta_type(f.ty)]

\* variant of generate_fields_def that emits the fields last to first
generate_fields_def_rev(fields) ==
    [macro |-> "vec",
     elems |-> [k \in 1..Len(fields) |-> field_def(fields[Len(fields) + 1 - k])]]

\* vec![#( #fields_def, )*]
generate_fields_def(fields) ==
    [macro |-> "vec", elems |-> [k \in 1..Len(fields) |-> field_def(fields[k])]]

generate_struct_def(data_struct) ==
    CASE data_struct.fields.kind = "Named" ->
            [call |-> "TypeDefStruct::new",
             arg |-> generate_fields_def(data_struct.fields.named)]
      [] data_struct.fields.kind = "Unnamed" ->
            [call |-> "TypeDefTupleStruct::new",
             arg |-> generate_fields_def(data_struct.fields.unnamed)]
      [] data_struct.fields.kind = "Unit" ->
            [call |-> "TypeDefTupleStruct::unit"]

\* variant of c_like_discriminant that counts positions from one
c_like_discriminant_one_based(i, v) ==
    IF v.discriminant.some
       /\ v.discriminant.val.expr = "Lit"
       /\ v.discriminant.val.lit = "Int"
    THEN v.discriminant.val.value
    ELSE i + 1

\* the discriminant recorded for the variant at zero-based position i
c_like_discriminant(i, v) ==
    IF v.discriminant.some
       /\ v.discriminant.val.expr = "Lit"
       /\ v.discriminant.val.lit = "Int"
    THEN v.discriminant.val.value
    ELSE i

c_like_variant_def(i, v) ==
    [call |-> "ClikeEnumVariant::new", name |-> v.ident,
     discriminant |-> c_like_discriminant(i, v)]

generate_c_like_enum_def(variants) ==
    [call |-> "TypeDefClikeEnum::new",
     arg |-> [macro |-> "vec",
              elems |-> [k \in 1..Len(variants) |-> c_like_variant_def(k - 1, variants[k])]]]

\* variant of is_c_like_enum that only looks at the fields
is_c_like_enum_all_unit(variants) ==
    \A k \in 1..Len(variants) : variants[k].fields = [kind |-> "Unit"]

is_c_like_enum(variants) ==
    \/ \E k \in 1..Len(variants) : variants[k].discriminant.some
    \/ \A k \in 1..Len(variants) : variants[k].fields = [kind |-> "Unit"]

\* one variant of an enum that is not C-like
variant_def(v) ==
    CASE v.fields.kind = "Named" ->
            [call |-> "EnumVariantStruct::new", name |-> v.ident,
             fields |-> generate_fields_def(v.fields.named)]
      [] v.fields.kind = "Unnamed" ->
            [call |-> "EnumVariantTupleStruct::new", name |-> v.ident,
             fields |-> generate_fields_def(v.fields.unnamed)]
      [] v.fields.kind = "Unit" ->
            [call |-> "EnumVariantUnit::new", name |-> v.ident]

generate_enum_def(data_enum) ==
    IF is_c_like_enum(data_enum.variants)
    THEN generate_c_like_enum_def(data_enum.variants)
    ELSE [call |-> "TypeDefEnum::new",
          arg |-> [macro |-> "vec",
                   elems |-> [k \in 1..Len(data_enum.variants) |->
                                variant_def(data_enum.variants[k])]]]

\* variant of generate_union_def that describes the union as a struct
generate_union_def_as_struct(data_union) ==
    [call |-> "TypeDefStruct::new", arg |-> generate_fields_def(data_union.fields.named)]

generate_union_def(data_union) ==
    [call |-> "TypeDefUnion::new", arg |-> generate_fields_def(data_union.fields.named)]

(* ------------------------------ the impl ------------------------------- *)

\* p.bounds.push(_type_metadata::Metadata); p.bounds.push('static)
add_bounds(generics) ==
    [k \in 1..Len(generics) |->
        [generics[k] EXCEPT !.bounds = @ \o <<"_type_metadata::Metadata", "'static">>]]

\* the dummy const the impl is placed in, named after the trait and the type
wrap(ident, trait_name, impl_quote) ==
    [const |-> <<"_IMPL", trait_name, "FOR", ident>>, items |-> <<impl_quote>>]

type_def_of(data) ==
    CASE data.kind = "Struct" -> generate_struct_def(data)
      [] data.kind = "Enum" -> generate_enum_def(data)
      [] data.kind = "Union" -> generate_union_def(data)

has_type_def_impl(ast) ==
    [impl |-> "_type_metadata::HasTypeDef",
     for |-> ast.ident,
     impl_generics |-> add_bounds(ast.generics),
     ty_generics |-> [k \in 1..Len(ast.generics) |-> ast.generics[k].ident],
     fn |-> "type_def",
     body |-> [into |-> type_def_of(ast.data)]]

\* Result<TokenStream2>: the `?` on syn::parse2 returns the parse error
generate_impl(inp) ==
    IF ~inp.parses
    THEN [ok |-> FALSE, err |-> inp.err]
    ELSE [ok |-> TRUE,
          value |-> wrap(inp.ast.ident, "HAS_TYPE_DEF", has_type_def_impl(inp.ast))]

\* variant of generate that unwraps the result
generate_unwrap(inp) ==
    LET r == generate_impl(inp) IN
    IF r.ok
    THEN [kind |-> "tokens", tokens |-> r.value]
    ELSE [kind |-> "panic", message |-> r.err]

generate(inp) ==
    LET r == generate_impl(inp) IN
    IF r.ok
    THEN [kind |-> "tokens", tokens |-> r.value]
    ELSE [kind |-> "compile_error", message |-> r.err]

(* --------------------------- the state machine ------------------------- *)

NoOutput == [kind |-> "none"]

Init ==
    /\ input \in Inputs
    /\ output = NoOutput

\* one expansion of the derive on the current input
Generate ==
    /\ output = NoOutput
    /\ output' = generate(input)
    /\ UNCHANGED input

Next == Generate

Spec == Init /\ [][Next]_vars

(* ------------------------------ properties ----------------------------- *)

Done == output # NoOutput

\* the HasTypeDef implementations among the emitted items
HasTypeDefImpls(out) ==
    {k \in DOMAIN out.tokens.items : out.tokens.items[k].impl = "_type_metadata::HasTypeDef"}

\* the description returned by the emitted type_def()
EmittedDef(out) == out.tokens.items[1].body.into

IsIntLit(d) == d.some /\ d.val.expr = "Lit" /\ d.val.lit = "Int"

FieldList(fields) ==
    CASE fields.kind = "Named" -> fields.named
      [] fields.kind = "Unnamed" -> fields.unnamed
      [] fields.kind = "Unit" -> <<>>

\* C1: every declaration that parses gets exactly one HasTypeDef
\* implementation, for its own identifier, and the description in it is a
\* struct, enum or union description according to the kind of declaration.
C1_OneImplByDeclarationKind ==
    (Done /\ input.parses) =>
        /\ output.kind = "tokens"
        /\ Cardinality(HasTypeDefImpls(output)) = 1
        /\ \A k \in HasTypeDefImpls(output) : output.tokens.items[k].for = input.ast.ident
        /\ LET def == EmittedDef(output) IN
           /\ input.ast.data.kind = "Struct" =>
                def.call \in {"TypeDefStruct::new", "TypeDefTupleStruct::new",
                              "TypeDefTupleStruct::unit"}
           /\ input.ast.data.kind = "Enum" =>
                def.call \in {"TypeDefClikeEnum::new", "TypeDefEnum::new"}
           /\ input.ast.data.kind = "Union" => def.call = "TypeDefUnion::new"
           /\ input.ast.data.kind \in {"Struct", "Enum", "Union"}

C1_Witness ==
    /\ Done
    /\ input.parses
    /\ input.ast.data.kind = "Union"
    /\ input.ast.ident = "Bar"
    /\ Len(input.ast.data.fields.named) = 2
    /\ EmittedDef(output).call = "TypeDefUnion::new"

\* the emitted element describes the field: its type, and its name if any
DescribesField(elem, f) ==
    /\ elem.meta_type = [call |-> "Metadata::meta_type", of |-> f.ty]
    /\ f.ident.some => (elem.call = "NamedField::new" /\ elem.name = f.ident.val)

\* C2: the description of an enum contains a description of every field of
\* every variant that carries fields.
C2_EveryVariantFieldDescribed ==
    (Done /\ input.parses /\ input.ast.data.kind = "Enum") =>
        LET vs == input.ast.data.variants
            elems == EmittedDef(output).arg.elems
        IN  \A k \in 1..Len(vs) :
                \A j \in 1..Len(FieldList(vs[k].fields)) :
                    /\ k \in DOMAIN elems
                    /\ "fields" \in DOMAIN elems[k]
                    /\ \E m \in DOMAIN elems[k].fields.elems :
                          DescribesField(elems[k].fields.elems[m], FieldList(vs[k].fields)[j])

\* the field lists of the declaration, each with the vector emitted for it
EmittedFieldLists ==
    LET data == input.ast.data
        def == EmittedDef(output)
    IN  CASE data.kind = "Struct" ->
                IF data.fields.kind = "Unit" THEN {}
                ELSE {<<FieldList(data.fields), def.arg>>}
          [] data.kind = "Union" -> {<<data.fields.named, def.arg>>}
          [] data.kind = "Enum" ->
                IF def.call # "TypeDefEnum::new" THEN {}
                ELSE {<<FieldList(data.variants[k].fields), def.arg.elems[k].fields>> :
                        k \in {i \in 1..Len(data.variants) : data.variants[i].fields.kind # "Unit"}}

\* C3: a field list is described field by field, in declaration order and
\* with the same count: NamedField with the name and the meta type for a
\* field with an identifier, UnnamedField with the meta type alone for one
\* without; an empty list gives an empty vector.
C3_FieldsInDeclarationOrder ==
    (Done /\ input.parses) =>
        \A p \in EmittedFieldLists :
            LET fs == p[1]
                v == p[2]
            IN  /\ v.macro = "vec"
                /\ Len(v.elems) = Len(fs)
                /\ fs = <<>> => v.elems = <<>>
                /\ \A k \in 1..Len(fs) :
                      IF fs[k].ident.some
                      THEN v.elems[k] =
                              [call |-> "NamedField::new", name |-> fs[k].ident.val,
                               meta_type |-> [call |-> "Metadata::meta_type", of |-> fs[k].ty]]
                      ELSE v.elems[k] =
                              [call |-> "UnnamedField::new",
                               meta_type |-> [call |-> "Metadata::meta_type", of |-> fs[k].ty]]

C3_Witness ==
    /\ Done
    /\ input.parses
    /\ input.ast.data.kind = "Struct"
    /\ input.ast.data.fields.kind = "Named"
    /\ input.ast.data.fields.named =
          <<[ident |-> Some("b"), ty |-> "u8"], [ident |-> Some("a"), ty |-> "bool"]>>
    /\ Len(EmittedDef(output).arg.elems) = 2
    /\ EmittedDef(output).arg.elems[1].name = "b"

\* C4: generate always returns a token stream: the compile error made from
\* the parse error, and no implementation, when the input does not parse;
\* the output of generate_impl, and no compile error, when it does.
C4_ParseErrorBecomesCompileError ==
    Done =>
        /\ output.kind \in {"tokens", "compile_error"}
        /\ ~input.parses =>
              /\ output.kind = "compile_error"
              /\ output.message = input.err
              /\ "tokens" \notin DOMAIN output
        /\ input.parses =>
              /\ output.kind = "tokens"
              /\ generate_impl(input).ok
              /\ output.tokens = generate_impl(input).value
              /\ "message" \notin DOMAIN output

C4_Witness ==
    /\ Done
    /\ ~input.parses
    /\ output.kind = "compile_error"

\* C6: in a C-like description the discriminant of a variant is the value
\* of its integer literal when it has one, and its zero-based position in
\* every other case, whatever the discriminants before it.
C6_LiteralOrPosition ==
    (Done /\ input.parses /\ input.ast.data.kind = "Enum"
          /\ EmittedDef(output).call = "TypeDefClikeEnum::new") =>
        LET vs == input.ast.data.variants
            elems == EmittedDef(output).arg.elems
        IN  /\ Len(elems) = Len(vs)
            /\ \A k \in 1..Len(vs) :
                  elems[k].discriminant =
                      IF IsIntLit(vs[k].discriminant)
                      THEN vs[k].discriminant.val.value
                      ELSE k - 1

C6_Witness ==
    /\ Done
    /\ input.parses
    /\ input.ast.data.kind = "Enum"
    /\ Len(input.ast.data.variants) = 2
    /\ input.ast.data.variants[1].discriminant = Some([expr |-> "Unary", op |-> "-", value |-> 1])
    /\ input.ast.data.variants[2].discriminant = None
    /\ EmittedDef(output).call = "TypeDefClikeEnum::new"
    /\ EmittedDef(output).arg.elems[1].discriminant = 0
    /\ EmittedDef(output).arg.elems[2].discriminant = 1

\* C7: the discriminants recorded in a C-like description are pairwise
\* distinct.
C7_DiscriminantsDistinct ==
    (Done /\ input.parses /\ input.ast.data.kind = "Enum"
          /\ EmittedDef(output).call = "TypeDefClikeEnum::new") =>
        LET elems == EmittedDef(output).arg.elems
        IN  \A j, k \in DOMAIN elems :
                j # k => elems[j].discriminant # elems[k].discriminant

\* C8: an enum is described as C-like exactly when some variant has an
\* explicit discriminant or every variant is a unit variant, and as a
\* general enum otherwise; an enum without variants is C-like and empty.
C8_CLikeClassification ==
    (Done /\ input.parses /\ input.ast.data.kind = "Enum") =>
        LET vs == input.ast.data.variants
            def == EmittedDef(output)
            someDiscriminant == \E k \in 1..Len(vs) : vs[k].discriminant.some
            allUnit == \A k \in 1..Len(vs) : vs[k].fields.kind = "Unit"
        IN  /\ def.call = "TypeDefClikeEnum::new" <=> (someDiscriminant \/ allUnit)
            /\ def.call # "TypeDefClikeEnum::new" => def.call = "TypeDefEnum::new"
            /\ vs = <<>> => (def.call = "TypeDefClikeEnum::new" /\ def.arg.elems = <<>>)

C8_Witness ==
    /\ Done
    /\ input.parses
    /\ input.ast.data.kind = "Enum"
    /\ input.ast.data.variants = <<>>
    /\ EmittedDef(output).call = "TypeDefClikeEnum::new"

====
